---------------------------- MODULE Spec2Model ----------------------------
(***************************************************************************)
(* A model of the room-assignment tool: the JSON reader, the assigner,     *)
(* the JSON and XML writers, the processor and the command line entry.     *)
(*                                                                         *)
(* Python values are tagged records [t, v]; every Python str is a sequence *)
(* of one-character strings, so that encoding and decoding are computed.   *)
(* A dict is the sequence of its <<key, value>> entries in insertion order.*)
(***************************************************************************)
EXTENDS Integers, Sequences, FiniteSets, TLC

VARIABLES
    pc,              \* position of the caller / of main()
    heap,            \* object store: reference -> Python value
    rooms,           \* reference held by the local `rooms`
    students,        \* reference held by the local `students`
    assigned_rooms,  \* reference returned by assign_students, or NoRef
    err,             \* exception that ended the run, or NoErr
    initial,         \* value of the rooms collection when it was loaded
    before,          \* value of the rooms collection when the last call began
    calls,           \* the students arguments of the calls made so far
    tree,            \* result of XMLWriter.build_tree, or PyNone
    fs,              \* file system: file name -> content (chars) or Missing
    reread,          \* result of reading the written JSON file back
    output_file,     \* the --output-file argument (chars)
    log              \* the I/O and processing steps taken so far, in order

vars == <<pc, heap, rooms, students, assigned_rooms, err, initial, before,
          calls, tree, fs, reread, output_file, log>>

-----------------------------------------------------------------------------
(* Bounds of the model *)

MaxRooms == 2

MaxStudents == 2

-----------------------------------------------------------------------------
(* Python values *)

PyNone == [t |-> "none", v |-> 0]

PyInt(n) == [t |-> "int", v |-> n]

PyStr(s) == [t |-> "str", v |-> s]

PyList(l) == [t |-> "list", v |-> l]

PyDict(entries) == [t |-> "dict", v |-> entries]

\* key in d
HasKey(d, k) == \E i \in 1..Len(d.v) : d.v[i][1] = k

\* d[key], for a key that is present
GetItem(d, k) == d.v[CHOOSE i \in 1..Len(d.v) : d.v[i][1] = k][2]

\* d[key] = value: an existing key keeps its position, a new key goes last
SetItem(d, k, val) ==
    IF HasKey(d, k)
    THEN PyDict([i \in 1..Len(d.v) |->
                    IF d.v[i][1] = k THEN <<k, val>> ELSE d.v[i]])
    ELSE PyDict(Append(d.v, <<k, val>>))

\* Position (1-based) that rooms[index] resolves to in a list of length n;
\* 0 stands for IndexError. Python counts a negative index from the end.
ListIndex(n, index) ==
    IF 0 <= index /\ index < n THEN index + 1
    ELSE IF -n <= index /\ index < 0 THEN n + index + 1
    ELSE 0

S_id == <<"i", "d">>

S_name == <<"n", "a", "m", "e">>

S_room == <<"r", "o", "o", "m">>

S_rooms == <<"r", "o", "o", "m", "s">>

S_student == <<"s", "t", "u", "d", "e", "n", "t">>

S_students == <<"s", "t", "u", "d", "e", "n", "t", "s">>

NoRef == "NoRef"

NoErr == "NoErr"

Missing == "Missing"

-----------------------------------------------------------------------------
(* RoomAssigner.assign_students *)

\* The body `rooms[room_index]["students"] = [name] + ...`: the name put in
\* front of the list instead of at its end
AppendNameFront(room, name) ==
    SetItem(room, S_students,
            PyList(<<name>> \o GetItem(room, S_students).v))

\* rooms[room_index]["students"].append(name)
AppendName(room, name) ==
    SetItem(room, S_students,
            PyList(Append(GetItem(room, S_students).v, name)))

\* The students list set to [] without the test for the key
EnsureStudentsAlways(room) == SetItem(room, S_students, PyList(<<>>))

\* if "students" not in rooms[room_index]: rooms[room_index]["students"] = []
EnsureStudents(room) ==
    IF ~HasKey(room, S_students)
    THEN SetItem(room, S_students, PyList(<<>>))
    ELSE room

\* The loop over students from position j on, acting on the list value rs.
\* Result: the list value reached, the exception raised (or NoErr) and the
\* position of the student at which it was raised (0 if none).
RECURSIVE AssignLoop(_, _, _)
AssignLoop(rs, studs, j) ==
    IF j > Len(studs) THEN [rooms |-> rs, raised |-> NoErr, at |-> 0]
    ELSE
        LET student == studs[j]
            room_index == GetItem(student, S_room).v
            name == GetItem(student, S_name)
            p == ListIndex(Len(rs.v), room_index)
        IN  IF p = 0
            THEN [rooms |-> rs, raised |-> "IndexError", at |-> j]
            ELSE
                LET r1 == EnsureStudents(rs.v[p])
                IN  IF GetItem(r1, S_students).t # "list"
                    THEN [rooms |-> PyList([rs.v EXCEPT ![p] = r1]),
                          raised |-> "AttributeError", at |-> j]
                    ELSE AssignLoop(
                            PyList([rs.v EXCEPT ![p] = AppendName(r1, name)]),
                            studs, j + 1)

\* assign_students giving every room a students list before the loop
assign_students_init_all(h, ref, sref) ==
    LET all == PyList([i \in 1..Len(h[ref].v) |-> EnsureStudents(h[ref].v[i])])
        out == AssignLoop(all, h[sref].v, 1)
    IN  [heap |-> [h EXCEPT ![ref] = out.rooms],
         ret |-> IF out.raised = NoErr THEN ref ELSE NoRef,
         raised |-> out.raised,
         at |-> out.at]

\* assign_students undoing its assignments when a student fails
assign_students_rollback(h, ref, sref) ==
    LET out == AssignLoop(h[ref], h[sref].v, 1)
    IN  [heap |-> IF out.raised = NoErr
                  THEN [h EXCEPT ![ref] = out.rooms] ELSE h,
         ret |-> IF out.raised = NoErr THEN ref ELSE NoRef,
         raised |-> out.raised,
         at |-> out.at]

\* assign_students working on, and returning, a copy of the rooms list
assign_students_copy(h, ref, sref) ==
    LET out == AssignLoop(h[ref], h[sref].v, 1)
        copy == CHOOSE r \in DOMAIN h : r \notin {ref, sref}
    IN  [heap |-> [h EXCEPT ![copy] = out.rooms],
         ret |-> IF out.raised = NoErr THEN copy ELSE NoRef,
         raised |-> out.raised,
         at |-> out.at]

\* assign_students(rooms, students) on the object store h: the list that
\* `ref` names is mutated in place and the same reference is returned.
assign_students(h, ref, sref) ==
    LET out == AssignLoop(h[ref], h[sref].v, 1)
    IN  [heap |-> [h EXCEPT ![ref] = out.rooms],
         ret |-> IF out.raised = NoErr THEN ref ELSE NoRef,
         raised |-> out.raised,
         at |-> out.at]

-----------------------------------------------------------------------------
(* json.dump(data, file, indent=4) *)

Digits == <<"0", "1", "2", "3", "4", "5", "6", "7", "8", "9">>

\* str(n) for n >= 0
RECURSIVE NatChars(_)
NatChars(n) ==
    IF n < 10 THEN <<Digits[n + 1]>>
    ELSE NatChars(n \div 10) \o <<Digits[(n % 10) + 1]>>

\* str(n)
IntChars(n) == IF n < 0 THEN <<"-">> \o NatChars(-n) ELSE NatChars(n)

\* A string written between quotes as it is, nothing escaped
EscapeCharPlain(c) == <<c>>

\* The encoder's escaping of one character (ensure_ascii)
EscapeChar(c) ==
    IF c = "\"" THEN <<"\\", "\"">>
    ELSE IF c = "\\" THEN <<"\\", "\\">>
    ELSE IF c = "\n" THEN <<"\\", "n">>
    ELSE <<c>>

RECURSIVE EscapeFrom(_, _)
EscapeFrom(s, i) ==
    IF i > Len(s) THEN <<>> ELSE EscapeChar(s[i]) \o EscapeFrom(s, i + 1)

\* A str as a JSON string literal
EncodeString(s) == <<"\"">> \o EscapeFrom(s, 1) \o <<"\"">>

RECURSIVE Spaces(_)
Spaces(n) == IF n = 0 THEN <<>> ELSE <<" ">> \o Spaces(n - 1)

\* The newline and indentation that indent=4 puts before an item at a depth
NewlineIndent(level) == <<"\n">> \o Spaces(4 * level)

RECURSIVE Dumps(_, _)
RECURSIVE DumpItems(_, _, _)
RECURSIVE DumpEntries(_, _, _)
\* The items of a list from position i on, each on its own line
DumpItems(l, i, level) ==
    IF i > Len(l) THEN <<>>
    ELSE (IF i > 1 THEN <<",">> ELSE <<>>)
         \o NewlineIndent(level) \o Dumps(l[i], level)
         \o DumpItems(l, i + 1, level)

\* The entries of a dict from position i on, as "key": value lines
DumpEntries(e, i, level) ==
    IF i > Len(e) THEN <<>>
    ELSE (IF i > 1 THEN <<",">> ELSE <<>>)
         \o NewlineIndent(level) \o EncodeString(e[i][1]) \o <<":", " ">>
         \o Dumps(e[i][2], level)
         \o DumpEntries(e, i + 1, level)

\* The text of value x whose opening bracket stands at nesting depth level
Dumps(x, level) ==
    CASE x.t = "none" -> <<"n", "u", "l", "l">>
      [] x.t = "int" -> IntChars(x.v)
      [] x.t = "str" -> EncodeString(x.v)
      [] x.t = "list" ->
            IF x.v = <<>> THEN <<"[", "]">>
            ELSE <<"[">> \o DumpItems(x.v, 1, level + 1)
                 \o NewlineIndent(level) \o <<"]">>
      [] x.t = "dict" ->
            IF x.v = <<>> THEN <<"{", "}">>
            ELSE <<"{">> \o DumpEntries(x.v, 1, level + 1)
                 \o NewlineIndent(level) \o <<"}">>

\* The text json.dump writes for data
json_dump(data) == Dumps(data, 0)

-----------------------------------------------------------------------------
(* json.load(file): the decoder, over the values the model holds (null,    *)
(* integers, strings, arrays, objects)                                     *)

Whitespace == {" ", "\n", "\t", "\r"}

DigitChars == {Digits[d] : d \in 1..10}

DigitValue(c) == (CHOOSE d \in 1..10 : Digits[d] = c) - 1

ParseFail == [ok |-> FALSE, val |-> PyNone, pos |-> 0]

ParseOk(val, pos) == [ok |-> TRUE, val |-> val, pos |-> pos]

\* First position from i on that holds no whitespace
RECURSIVE SkipWhitespace(_, _)
SkipWhitespace(text, i) ==
    IF i <= Len(text) /\ text[i] \in Whitespace
    THEN SkipWhitespace(text, i + 1)
    ELSE i

\* The digits from position i on, accumulated into n
RECURSIVE ParseDigits(_, _, _)
ParseDigits(text, i, n) ==
    IF i <= Len(text) /\ text[i] \in DigitChars
    THEN ParseDigits(text, i + 1, 10 * n + DigitValue(text[i]))
    ELSE [n |-> n, pos |-> i]

\* An integer literal at position i: -?(0|[1-9][0-9]*)
ParseNumber(text, i) ==
    LET neg == text[i] = "-"
        d == IF neg THEN i + 1 ELSE i
    IN  IF d > Len(text) \/ text[d] \notin DigitChars THEN ParseFail
        ELSE LET r == IF text[d] = "0" THEN [n |-> 0, pos |-> d + 1]
                      ELSE ParseDigits(text, d, 0)
             IN  ParseOk(PyInt(IF neg THEN -r.n ELSE r.n), r.pos)

\* The rest of a string literal whose opening quote precedes position i
RECURSIVE ParseString(_, _, _)
ParseString(text, i, acc) ==
    IF i > Len(text) THEN ParseFail
    ELSE IF text[i] = "\"" THEN ParseOk(PyStr(acc), i + 1)
    ELSE IF text[i] = "\\"
    THEN IF i + 1 > Len(text) THEN ParseFail
         ELSE IF text[i + 1] \in {"\"", "\\", "/"}
         THEN ParseString(text, i + 2, Append(acc, text[i + 1]))
         ELSE IF text[i + 1] = "n"
         THEN ParseString(text, i + 2, Append(acc, "\n"))
         ELSE ParseFail
    ELSE IF text[i] = "\n" THEN ParseFail
    ELSE ParseString(text, i + 1, Append(acc, text[i]))

\* text[i .. i + Len(word) - 1] = word
StartsWith(text, i, word) ==
    /\ i + Len(word) - 1 <= Len(text)
    /\ \A k \in 1..Len(word) : text[i + k - 1] = word[k]

RECURSIVE ParseValue(_, _)
RECURSIVE ParseItems(_, _, _)
RECURSIVE ParseEntries(_, _, _)
\* The items of an array, the next item starting at position i
ParseItems(text, i, acc) ==
    LET item == ParseValue(text, i)
        j == SkipWhitespace(text, item.pos)
    IN  IF ~item.ok \/ j > Len(text) THEN ParseFail
        ELSE IF text[j] = "]" THEN ParseOk(PyList(Append(acc, item.val)), j + 1)
        ELSE IF text[j] = ","
        THEN ParseItems(text, SkipWhitespace(text, j + 1), Append(acc, item.val))
        ELSE ParseFail

\* The entries of an object, the next key starting at position i
ParseEntries(text, i, acc) ==
    IF i > Len(text) \/ text[i] # "\"" THEN ParseFail
    ELSE
        LET key == ParseString(text, i + 1, <<>>)
            c == SkipWhitespace(text, key.pos)
        IN  IF ~key.ok \/ c > Len(text) \/ text[c] # ":" THEN ParseFail
            ELSE
                LET val == ParseValue(text, SkipWhitespace(text, c + 1))
                    j == SkipWhitespace(text, val.pos)
                    d == SetItem(acc, key.val.v, val.val)
                IN  IF ~val.ok \/ j > Len(text) THEN ParseFail
                    ELSE IF text[j] = "}" THEN ParseOk(d, j + 1)
                    ELSE IF text[j] = ","
                    THEN ParseEntries(text, SkipWhitespace(text, j + 1), d)
                    ELSE ParseFail

\* The value that starts at position i
ParseValue(text, i) ==
    IF i > Len(text) THEN ParseFail
    ELSE IF text[i] = "\"" THEN ParseString(text, i + 1, <<>>)
    ELSE IF text[i] = "["
    THEN LET j == SkipWhitespace(text, i + 1)
         IN  IF j <= Len(text) /\ text[j] = "]"
             THEN ParseOk(PyList(<<>>), j + 1)
             ELSE ParseItems(text, j, <<>>)
    ELSE IF text[i] = "{"
    THEN LET j == SkipWhitespace(text, i + 1)
         IN  IF j <= Len(text) /\ text[j] = "}"
             THEN ParseOk(PyDict(<<>>), j + 1)
             ELSE ParseEntries(text, j, PyDict(<<>>))
    ELSE IF StartsWith(text, i, <<"n", "u", "l", "l">>)
    THEN ParseOk(PyNone, i + 4)
    ELSE IF text[i] = "-" \/ text[i] \in DigitChars THEN ParseNumber(text, i)
    ELSE ParseFail

\* json.load on a file's text: the document, or a JSONDecodeError
json_load(text) ==
    LET r == ParseValue(text, SkipWhitespace(text, 1))
    IN  IF r.ok /\ SkipWhitespace(text, r.pos) > Len(text)
        THEN [ok |-> TRUE, val |-> r.val]
        ELSE [ok |-> FALSE, val |-> PyNone]

-----------------------------------------------------------------------------
(* XMLWriter *)

\* An ElementTree element: tag, attributes in order, text (a str value or
\* PyNone) and child elements in order
Element(tag, attrib, text, children) ==
    [tag |-> tag, attrib |-> attrib, text |-> text, children |-> children]

\* str(value) of a scalar field
StrOf(value) ==
    CASE value.t = "int" -> IntChars(value.v)
      [] value.t = "str" -> value.v
      [] value.t = "none" -> <<"N", "o", "n", "e">>

\* The child element built for one (key, value) item of a room
FieldElement(key, value) ==
    IF key = S_students
    THEN Element(S_students, <<>>, PyNone,
                 [j \in 1..Len(value.v) |->
                     Element(S_student, <<>>, value.v[j], <<>>)])
    ELSE Element(key, <<>>, PyStr(StrOf(value)), <<>>)

\* The room element carrying the room's own id field as its id attribute
RoomElementOwnId(room_id, room_info) ==
    Element(S_room, << <<S_id, StrOf(GetItem(room_info, S_id))>> >>, PyNone,
            [k \in 1..Len(room_info.v) |->
                FieldElement(room_info.v[k][1], room_info.v[k][2])])

\* The room element for the room enumerated as room_id
RoomElement(room_id, room_info) ==
    Element(S_room, << <<S_id, IntChars(room_id)>> >>, PyNone,
            [k \in 1..Len(room_info.v) |->
                FieldElement(room_info.v[k][1], room_info.v[k][2])])

\* XMLWriter.build_tree(data): the root element of the tree
build_tree(data) ==
    Element(S_rooms, <<>>, PyNone,
            [i \in 1..Len(data.v) |-> RoomElement(i - 1, data.v[i])])

\* Escaping of one character of element text
EscapeCdataChar(c) ==
    IF c = "&" THEN <<"&", "a", "m", "p", ";">>
    ELSE IF c = "<" THEN <<"&", "l", "t", ";">>
    ELSE IF c = ">" THEN <<"&", "g", "t", ";">>
    ELSE <<c>>

\* Escaping of one character of an attribute value
EscapeAttribChar(c) ==
    IF c = "\"" THEN <<"&", "q", "u", "o", "t", ";">>
    ELSE IF c = "\n" THEN <<"&", "#", "1", "0", ";">>
    ELSE EscapeCdataChar(c)

RECURSIVE EscapeCdata(_, _)
EscapeCdata(s, i) ==
    IF i > Len(s) THEN <<>>
    ELSE EscapeCdataChar(s[i]) \o EscapeCdata(s, i + 1)

RECURSIVE EscapeAttrib(_, _)
EscapeAttrib(s, i) ==
    IF i > Len(s) THEN <<>>
    ELSE EscapeAttribChar(s[i]) \o EscapeAttrib(s, i + 1)

RECURSIVE SerializeAttribs(_, _)
SerializeAttribs(a, i) ==
    IF i > Len(a) THEN <<>>
    ELSE <<" ">> \o a[i][1] \o <<"=", "\"">> \o EscapeAttrib(a[i][2], 1)
         \o <<"\"">> \o SerializeAttribs(a, i + 1)

RECURSIVE SerializeXml(_)
RECURSIVE SerializeChildren(_, _)
SerializeChildren(c, i) ==
    IF i > Len(c) THEN <<>>
    ELSE SerializeXml(c[i]) \o SerializeChildren(c, i + 1)

\* The markup of one element; an element with neither text nor children is
\* written in the short form <tag />
SerializeXml(e) ==
    LET text == IF e.text.t = "str" THEN e.text.v ELSE <<>>
        open == <<"<">> \o e.tag \o SerializeAttribs(e.attrib, 1)
    IN  IF text # <<>> \/ Len(e.children) > 0
        THEN open \o <<">">> \o EscapeCdata(text, 1)
             \o SerializeChildren(e.children, 1)
             \o <<"<", "/">> \o e.tag \o <<">">>
        ELSE open \o <<" ", "/", ">">>

XmlDeclaration ==
    <<"<", "?", "x", "m", "l", " ", "v", "e", "r", "s", "i", "o", "n", "=",
      "'", "1", ".", "0", "'", " ", "e", "n", "c", "o", "d", "i", "n", "g",
      "=", "'", "u", "t", "f", "-", "8", "'", "?", ">", "\n">>

\* The text tree.write(filepath, encoding="utf-8", xml_declaration=True)
\* writes for the tree of data
xml_write(data) == XmlDeclaration \o SerializeXml(build_tree(data))

-----------------------------------------------------------------------------
(* The documents the model runs on *)

Name1 == <<"A">>

Name2 == <<"\"", "\\">>

\* Rooms as the rooms document may hold them: without a students field,
\* with an empty one, with one already filled; ids differ from positions
\* and the field order varies
RoomPlain == PyDict(<< <<S_id, PyInt(1)>>, <<S_name, PyStr(Name1)>> >>)

RoomEmpty ==
    PyDict(<< <<S_name, PyStr(Name2)>>, <<S_id, PyInt(0)>>,
              <<S_students, PyList(<<>>)>> >>)

RoomFilled ==
    PyDict(<< <<S_id, PyInt(0)>>, <<S_name, PyStr(Name2)>>,
              <<S_students, PyList(<<PyStr(Name2)>>)>> >>)

RoomChoices == {RoomPlain, RoomEmpty, RoomFilled}

\* Lists of at most MaxRooms rooms drawn from a set of rooms
RoomListsOf(choices) ==
    {PyList(l) : l \in UNION {[1..n -> choices] : n \in 0..MaxRooms}}

RoomLists == RoomListsOf(RoomChoices)

\* The student at position j (1-based) of the students document
Student(j, room) ==
    PyDict(<< <<S_id, PyInt(j - 1)>>,
              <<S_name, PyStr(IF j % 2 = 1 THEN Name1 ELSE Name2)>>,
              <<S_room, PyInt(room)>> >>)

\* Lists of at most MaxStudents students with room values drawn from a set
StudentListsOf(roomValues) ==
    {PyList([j \in DOMAIN f |-> Student(j, f[j])]) :
        f \in UNION {[1..n -> roomValues] : n \in 0..MaxStudents}}

-----------------------------------------------------------------------------
(* The object store and the file system *)

Refs == <<"obj1", "obj2", "obj3">>

\* A cell no object lives in
Free == [t |-> "free", v |-> 0]

EmptyHeap == [r \in {Refs[i] : i \in 1..Len(Refs)} |-> Free]

\* The reference a newly created object gets
NewRef(h) == Refs[CHOOSE i \in 1..Len(Refs) :
                    /\ h[Refs[i]] = Free
                    /\ \A k \in 1..(i - 1) : h[Refs[k]] # Free]

\* JSONReader.read(filepath): the parsed document, or the exception
JSONReader_read(fsys, file) ==
    IF fsys[file] = <<Missing>>
    THEN [raised |-> "FileNotFoundError", val |-> PyNone]
    ELSE LET r == json_load(fsys[file])
         IN  IF r.ok THEN [raised |-> NoErr, val |-> r.val]
             ELSE [raised |-> "JSONDecodeError", val |-> PyNone]

\* JSONWriter.write(filepath, data): the file system afterwards
JSONWriter_write(fsys, file, data) ==
    [fsys EXCEPT ![file] = json_dump(data)]

\* XMLWriter.write(filepath, data): the file system afterwards
XMLWriter_write(fsys, file, data) ==
    [fsys EXCEPT ![file] = xml_write(data)]

-----------------------------------------------------------------------------
(* Specification SpecAssign: a caller of the library. It holds a rooms     *)
(* collection, calls assign_students on it (again on its own output, with  *)
(* an empty list or with the same students), then builds the XML tree,     *)
(* writes the JSON file and reads that file back.                          *)

MaxCalls == 2

\* Room values a students document may hold: in range, beyond the end of
\* the list, and negative
RoomValues == (-2)..MaxRooms

StudentLists == StudentListsOf(RoomValues)

InitAssign ==
    /\ pc = "ready"
    /\ \E rs \in RoomLists :
          /\ heap = [EmptyHeap EXCEPT !["obj1"] = rs]
          /\ initial = rs
          /\ before = rs
    /\ rooms = "obj1"
    /\ students = NoRef
    /\ assigned_rooms = NoRef
    /\ err = NoErr
    /\ calls = <<>>
    /\ tree = PyNone
    /\ fs = [rooms |-> <<Missing>>, students |-> <<Missing>>,
             output |-> <<Missing>>]
    /\ reread = PyNone
    /\ output_file = <<>>
    /\ log = <<>>

\* assigned_rooms = RoomAssigner.assign_students(rooms, S)
CallAssign ==
    /\ pc \in {"ready", "assigned"}
    /\ Len(calls) < MaxCalls
    /\ \E S \in (IF calls = <<>> THEN StudentLists
                 ELSE {PyList(<<>>), calls[Len(calls)]}) :
          LET sref == IF students = NoRef THEN NewRef(heap) ELSE students
              h1 == [heap EXCEPT ![sref] = S]
              r == assign_students(h1, rooms, sref)
          IN  /\ students' = sref
              /\ before' = heap[rooms]
              /\ calls' = Append(calls, S)
              /\ heap' = r.heap
              /\ assigned_rooms' = r.ret
              /\ err' = r.raised
              /\ pc' = IF r.raised = NoErr THEN "assigned" ELSE "raised"
    /\ UNCHANGED <<rooms, initial, tree, fs, reread, output_file, log>>

\* tree = XMLWriter.build_tree(rooms)
CallBuildTree ==
    /\ pc \in {"ready", "assigned"}
    /\ tree' = build_tree(heap[rooms])
    /\ pc' = "built"
    /\ UNCHANGED <<heap, rooms, students, assigned_rooms, err, initial,
                   before, calls, fs, reread, output_file, log>>

\* JSONWriter().write(output, rooms)
CallJsonWrite ==
    /\ pc = "built"
    /\ fs' = JSONWriter_write(fs, "output", heap[rooms])
    /\ pc' = "written"
    /\ UNCHANGED <<heap, rooms, students, assigned_rooms, err, initial,
                   before, calls, tree, reread, output_file, log>>

\* reread = JSONReader().read(output)
CallJsonRead ==
    /\ pc = "written"
    /\ LET r == JSONReader_read(fs, "output")
       IN  /\ reread' = r.val
           /\ err' = r.raised
           /\ pc' = IF r.raised = NoErr THEN "reread" ELSE "raised"
    /\ UNCHANGED <<heap, rooms, students, assigned_rooms, initial, before,
                   calls, tree, fs, output_file, log>>

NextAssign == CallAssign \/ CallBuildTree \/ CallJsonWrite \/ CallJsonRead

SpecAssign == InitAssign /\ [][NextAssign]_vars

-----------------------------------------------------------------------------
(* Specification Spec: one run of main()                                   *)

UpperLetters ==
    <<"A", "B", "C", "D", "E", "F", "G", "H", "I", "J", "K", "L", "M",
      "N", "O", "P", "Q", "R", "S", "T", "U", "V", "W", "X", "Y", "Z">>

LowerLetters ==
    <<"a", "b", "c", "d", "e", "f", "g", "h", "i", "j", "k", "l", "m",
      "n", "o", "p", "q", "r", "s", "t", "u", "v", "w", "x", "y", "z">>

\* str.lower()
Lower(s) ==
    [i \in 1..Len(s) |->
        IF \E k \in 1..Len(UpperLetters) : UpperLetters[k] = s[i]
        THEN LowerLetters[CHOOSE k \in 1..Len(UpperLetters) :
                              UpperLetters[k] = s[i]]
        ELSE s[i]]

\* Path(name).suffix for a file name without directories: the part from the
\* last dot on, unless that dot is the first or the last character
Suffix(name) ==
    LET dots == {i \in 1..Len(name) : name[i] = "."}
    IN  IF dots = {} THEN <<>>
        ELSE LET i == CHOOSE d \in dots : \A e \in dots : e <= d
             IN  IF 1 < i /\ i < Len(name)
                 THEN SubSeq(name, i, Len(name))
                 ELSE <<>>

\* writer_map.get(extension, JSONWriter()): a default for unknown extensions
WriterForDefault(extension) ==
    IF extension = <<".", "x", "m", "l">> THEN "XMLWriter" ELSE "JSONWriter"

\* writer_map.get(extension): the writer class, or NoWriter
WriterFor(extension) ==
    IF extension = <<".", "j", "s", "o", "n">> THEN "JSONWriter"
    ELSE IF extension = <<".", "x", "m", "l">> THEN "XMLWriter"
    ELSE "NoWriter"

\* The writer main() selects for an output file name
SelectedWriter(name) == WriterFor(Lower(Suffix(name)))

\* Values of --output-file: out.json, o.JSON, o.xml, out.txt, out, .xml
OutputFiles ==
    { <<"o", "u", "t", ".", "j", "s", "o", "n">>,
      <<"o", ".", "J", "S", "O", "N">>,
      <<"o", ".", "x", "m", "l">>,
      <<"o", "u", "t", ".", "t", "x", "t">>,
      <<"o", "u", "t">>,
      <<".", "x", "m", "l">> }

\* A rooms or students file that does not parse
Malformed == <<"[", "{">>

\* Contents of the rooms file: absent, malformed, or a rooms document
RoomsFiles ==
    {<<Missing>>, Malformed}
        \cup {json_dump(rs) : rs \in RoomListsOf({RoomPlain, RoomEmpty})}

\* Contents of the students file: absent, malformed, or a students document
StudentsFiles ==
    {<<Missing>>, Malformed}
        \cup {json_dump(S) : S \in StudentListsOf((-1)..MaxRooms)}

\* One entry of the log: a step of the run and whether it completed
Event(step, raised) == [step |-> step, ok |-> raised = NoErr]

Init ==
    /\ pc = "main"
    /\ output_file \in OutputFiles
    /\ \E r \in RoomsFiles, s \in StudentsFiles :
          fs = [rooms |-> r, students |-> s, output |-> <<Missing>>]
    /\ heap = EmptyHeap
    /\ rooms = NoRef
    /\ students = NoRef
    /\ assigned_rooms = NoRef
    /\ err = NoErr
    /\ initial = PyNone
    /\ before = PyNone
    /\ calls = <<>>
    /\ tree = PyNone
    /\ reread = PyNone
    /\ log = <<>>

\* main(): the writer is looked up from the output file's extension; no
\* writer raises ValueError, otherwise the processor is started
Main ==
    /\ pc = "main"
    /\ IF SelectedWriter(output_file) = "NoWriter"
       THEN pc' = "raised" /\ err' = "ValueError"
       ELSE pc' = "read_rooms" /\ err' = err
    /\ UNCHANGED <<heap, rooms, students, assigned_rooms, initial, before,
                   calls, tree, fs, reread, output_file, log>>

\* rooms = self.reader.read(rooms_file)
ReadRooms ==
    /\ pc = "read_rooms"
    /\ LET r == JSONReader_read(fs, "rooms")
           ref == NewRef(heap)
       IN  /\ log' = Append(log, Event("read_rooms", r.raised))
           /\ err' = r.raised
           /\ IF r.raised = NoErr
              THEN /\ heap' = [heap EXCEPT ![ref] = r.val]
                   /\ rooms' = ref
                   /\ initial' = r.val
                   /\ pc' = "read_students"
              ELSE /\ UNCHANGED <<heap, rooms, initial>>
                   /\ pc' = "raised"
    /\ UNCHANGED <<students, assigned_rooms, before, calls, tree, fs,
                   reread, output_file>>

\* students = self.reader.read(students_file)
ReadStudents ==
    /\ pc = "read_students"
    /\ LET r == JSONReader_read(fs, "students")
           ref == NewRef(heap)
       IN  /\ log' = Append(log, Event("read_students", r.raised))
           /\ err' = r.raised
           /\ IF r.raised = NoErr
              THEN /\ heap' = [heap EXCEPT ![ref] = r.val]
                   /\ students' = ref
                   /\ pc' = "assign"
              ELSE /\ UNCHANGED <<heap, students>>
                   /\ pc' = "raised"
    /\ UNCHANGED <<rooms, assigned_rooms, initial, before, calls, tree, fs,
                   reread, output_file>>

\* The assignment step with its exception caught and the run carried on
AssignSwallow ==
    /\ pc = "assign"
    /\ LET r == assign_students(heap, rooms, students)
       IN  /\ log' = Append(log, Event("assign", r.raised))
           /\ before' = heap[rooms]
           /\ calls' = Append(calls, heap[students])
           /\ heap' = r.heap
           /\ assigned_rooms' = rooms
           /\ err' = r.raised
           /\ pc' = "write"
    /\ UNCHANGED <<rooms, students, initial, tree, fs, reread, output_file>>

\* assigned_rooms = self.assigner.assign_students(rooms, students)
Assign ==
    /\ pc = "assign"
    /\ LET r == assign_students(heap, rooms, students)
       IN  /\ log' = Append(log, Event("assign", r.raised))
           /\ before' = heap[rooms]
           /\ calls' = Append(calls, heap[students])
           /\ heap' = r.heap
           /\ assigned_rooms' = r.ret
           /\ err' = r.raised
           /\ pc' = IF r.raised = NoErr THEN "write" ELSE "raised"
    /\ UNCHANGED <<rooms, students, initial, tree, fs, reread, output_file>>

\* self.writer.write(output_file, assigned_rooms)
Write ==
    /\ pc = "write"
    /\ log' = Append(log, Event("write", NoErr))
    /\ IF SelectedWriter(output_file) = "JSONWriter"
       THEN /\ fs' = JSONWriter_write(fs, "output", heap[assigned_rooms])
            /\ tree' = tree
       ELSE /\ fs' = XMLWriter_write(fs, "output", heap[assigned_rooms])
            /\ tree' = build_tree(heap[assigned_rooms])
    /\ pc' = "done"
    /\ UNCHANGED <<heap, rooms, students, assigned_rooms, err, initial,
                   before, calls, reread, output_file>>

Next == Main \/ ReadRooms \/ ReadStudents \/ Assign \/ Write

Spec == Init /\ [][Next]_vars

-----------------------------------------------------------------------------
(* Vocabulary of the properties *)

\* The rooms collection as it is now
Now == heap[rooms]

\* The students argument of the latest call
LastCall == calls[Len(calls)]

RoomOf(student) == GetItem(student, S_room).v

NameOf(student) == GetItem(student, S_name)

\* The names a room holds; a room without the field holds none
StudentsOf(room) ==
    IF HasKey(room, S_students) THEN GetItem(room, S_students).v ELSE <<>>

\* The entries of a room other than its students field, in order
RECURSIVE OtherFields(_, _)
OtherFields(entries, k) ==
    IF k > Len(entries) THEN <<>>
    ELSE (IF entries[k][1] = S_students THEN <<>> ELSE <<entries[k]>>)
         \o OtherFields(entries, k + 1)

\* index is a valid zero-based index into a list of n rooms
ValidIndex(index, n) == 0 <= index /\ index < n

AllValid(S, n) == \A j \in 1..Len(S.v) : ValidIndex(RoomOf(S.v[j]), n)

NoStudentsField(rs) == \A i \in 1..Len(rs.v) : ~HasKey(rs.v[i], S_students)

\* Names of the first len students whose room value equals index, in order
RECURSIVE NamesWithIndex(_, _, _)
NamesWithIndex(studs, len, index) ==
    IF len = 0 THEN <<>>
    ELSE NamesWithIndex(studs, len - 1, index)
         \o (IF RoomOf(studs[len]) = index THEN <<NameOf(studs[len])>>
             ELSE <<>>)

\* The position (1-based) a room value refers to among n rooms, as Python
\* subscripting reads it: -1 is the last room; 0 when it refers to none
RefersTo(index, n) ==
    IF index >= 0 /\ index < n THEN index + 1
    ELSE IF index < 0 /\ index >= -n THEN index + n + 1
    ELSE 0

\* Names of the first len students whose room value refers to position p
RECURSIVE NamesReferring(_, _, _, _)
NamesReferring(studs, len, p, n) ==
    IF len = 0 THEN <<>>
    ELSE NamesReferring(studs, len - 1, p, n)
         \o (IF RefersTo(RoomOf(studs[len]), n) = p
             THEN <<NameOf(studs[len])>> ELSE <<>>)

-----------------------------------------------------------------------------
(* Properties of assign_students, under SpecAssign *)

\* C1: on rooms without a students field and students whose room values are
\* all valid indices, assign_students returns a list of the same length in
\* which room i holds exactly the names of the students with room = i, in
\* the order of the students list.
C1_AssignGroupsInOrder ==
    (Len(calls) = 1 /\ NoStudentsField(initial)
        /\ AllValid(calls[1], Len(initial.v)))
    => /\ err \notin {"IndexError", "AttributeError"}
       /\ assigned_rooms # NoRef
       /\ Len(heap[assigned_rooms].v) = Len(initial.v)
       /\ \A i \in 1..Len(initial.v) :
             StudentsOf(heap[assigned_rooms].v[i])
                = NamesWithIndex(calls[1].v, Len(calls[1].v), i - 1)

\* C1 witness: two students were assigned to the same room of two
C1_Witness ==
    /\ pc = "assigned" /\ Len(calls) = 1
    /\ NoStudentsField(initial) /\ Len(initial.v) = 2
    /\ AllValid(calls[1], 2)
    /\ \E i \in 1..2 : Len(StudentsOf(Now.v[i])) = 2

\* C2 as claimed: a call whose students hold a room value that is no valid
\* index (negative, or >= the number of rooms) fails with an out-of-range
\* error, returns nothing, and appends no name of such a student.
C2_InvalidIndexFails ==
    (Len(calls) = 1 /\ ~AllValid(calls[1], Len(initial.v)))
    => /\ err = "IndexError"
       /\ assigned_rooms = NoRef
       /\ \A i \in 1..Len(Now.v) :
             Len(StudentsOf(Now.v[i])) - Len(StudentsOf(initial.v[i]))
                <= Len(NamesWithIndex(calls[1].v, Len(calls[1].v), i - 1))

C6_AssignIsCumulative ==
    (Len(calls) >= 1 /\ AllValid(LastCall, Len(before.v)))
    => /\ err \notin {"IndexError", "AttributeError"}
       /\ Len(Now.v) = Len(before.v)
       /\ \A i \in 1..Len(before.v) :
             StudentsOf(Now.v[i])
                = StudentsOf(before.v[i])
                  \o NamesWithIndex(LastCall.v, Len(LastCall.v), i - 1)
       /\ LastCall.v = <<>> => Now = before
       /\ (Len(calls) = 2 /\ calls[1] = calls[2] /\ NoStudentsField(initial))
          => \A i \in 1..Len(initial.v) :
                LET names == NamesWithIndex(calls[1].v, Len(calls[1].v), i - 1)
                IN  StudentsOf(Now.v[i]) = names \o names

\* C6 witness: the same non-empty students list was assigned twice to rooms
\* one of which already carried a name when it was loaded
C6_Witness ==
    /\ pc = "assigned" /\ Len(calls) = 2 /\ calls[1] = calls[2]
    /\ calls[1].v # <<>> /\ AllValid(calls[1], Len(initial.v))
    /\ \E i \in 1..Len(Now.v) :
          /\ Len(StudentsOf(initial.v[i])) = 1
          /\ Len(StudentsOf(Now.v[i])) >= 3

\* The position of the first student whose room value refers to no room
FirstFailing(S, n) ==
    CHOOSE k \in 1..Len(S.v) :
        /\ RefersTo(RoomOf(S.v[k]), n) = 0
        /\ \A j \in 1..(k - 1) : RefersTo(RoomOf(S.v[j]), n) # 0

\* C8: when a call fails at the k-th student, nothing is rolled back: each
\* room holds its previous names followed by the names of those of the
\* first k-1 students that refer to it, in order, and nothing of the k-th
\* student or of a later one; nothing is returned.
C8_PartialMutationOnFailure ==
    (Len(calls) >= 1 /\ err = "IndexError")
    => LET n == Len(before.v)
           k == FirstFailing(LastCall, n)
       IN  /\ assigned_rooms = NoRef
           /\ Len(Now.v) = n
           /\ \A i \in 1..n :
                 /\ StudentsOf(Now.v[i])
                      = StudentsOf(before.v[i])
                        \o NamesReferring(LastCall.v, k - 1, i, n)
                 /\ OtherFields(Now.v[i].v, 1) = OtherFields(before.v[i].v, 1)

\* C8 witness: the call failed at its second student after the first had
\* given a room its students field
C8_Witness ==
    /\ pc = "raised" /\ err = "IndexError" /\ Len(calls) = 1
    /\ FirstFailing(calls[1], Len(before.v)) = 2
    /\ \E i \in 1..Len(Now.v) :
          ~HasKey(before.v[i], S_students) /\ HasKey(Now.v[i], S_students)

-----------------------------------------------------------------------------
(* Properties of the writers and the reader, under SpecAssign *)

\* The text a scalar field's element is to hold
ExpectedText(value) ==
    IF value.t = "int" THEN PyStr(IntChars(value.v)) ELSE PyStr(value.v)

\* C4: build_tree gives a root 'rooms' with one 'room' child per room, in
\* order, whose id attribute is the room's zero-based position; every field
\* but students is a child named after the field that holds its value as
\* text (the room's own id among them), and a students field is one
\* 'students' child holding one 'student' element per name, in order.
C4_XmlTreeShape ==
    tree # PyNone
    => /\ tree.tag = S_rooms
       /\ tree.attrib = <<>>
       /\ Len(tree.children) = Len(Now.v)
       /\ \A i \in 1..Len(Now.v) :
             LET room == Now.v[i].v
                 elem == tree.children[i]
             IN  /\ elem.tag = S_room
                 /\ elem.attrib = << <<S_id, <<Digits[i]>> >> >>
                 /\ Len(elem.children) = Len(room)
                 /\ \A k \in 1..Len(room) :
                       LET key == room[k][1]
                           value == room[k][2]
                           child == elem.children[k]
                       IN  IF key = S_students
                           THEN /\ child.tag = S_students
                                /\ Len(child.children) = Len(value.v)
                                /\ \A j \in 1..Len(value.v) :
                                      /\ child.children[j].tag = S_student
                                      /\ child.children[j].text = value.v[j]
                                      /\ child.children[j].children = <<>>
                           ELSE /\ child.tag = key
                                /\ child.text = ExpectedText(value)
                                /\ child.children = <<>>

\* C4 witness: a tree was built for two rooms, the first with own id 1 and
\* two students
C4_Witness ==
    /\ pc = "built" /\ Len(Now.v) = 2
    /\ GetItem(Now.v[1], S_id).v = 1
    /\ Len(StudentsOf(Now.v[1])) = 2
    /\ tree.children[1].attrib[1][2] = <<"0">>

\* C7: the rooms written by the JSON writer and read back by the JSON reader
\* are as many, in the same order, each with the same id, the same name and
\* the same names of students in the same order, a room without a students
\* field coming back without one.
C7_JsonRoundTrip ==
    /\ err \notin {"JSONDecodeError", "FileNotFoundError"}
    /\ pc = "reread"
       => /\ reread.t = "list"
          /\ Len(reread.v) = Len(Now.v)
          /\ \A i \in 1..Len(Now.v) :
                /\ reread.v[i].t = "dict"
                /\ HasKey(reread.v[i], S_id) /\ HasKey(reread.v[i], S_name)
                /\ GetItem(reread.v[i], S_id) = GetItem(Now.v[i], S_id)
                /\ GetItem(reread.v[i], S_name) = GetItem(Now.v[i], S_name)
                /\ HasKey(reread.v[i], S_students)
                   <=> HasKey(Now.v[i], S_students)
                /\ StudentsOf(reread.v[i]) = StudentsOf(Now.v[i])

\* C7 witness: rooms were read back of which one has a quote and a backslash
\* in a student's name, and one has no students field
C7_Witness ==
    /\ pc = "reread" /\ Len(calls) = 1 /\ Len(Now.v) = 2
    /\ \E i \in 1..2 : PyStr(Name2) \in {StudentsOf(Now.v[i])[j] :
                                          j \in 1..Len(StudentsOf(Now.v[i]))}
    /\ \E i \in 1..2 : ~HasKey(reread.v[i], S_students)

-----------------------------------------------------------------------------
(* Properties of a run of main(), under Spec *)

\* The steps of assign_and_export, in the order of its statements
Steps == <<"read_rooms", "read_students", "assign", "write">>

\* C3: when the output file's extension is neither .json nor .xml (as for
\* out.txt) the run fails with ValueError and nothing else ever happens: no
\* file is read, nothing is assigned and no file is written.
C3_UnsupportedFormatBeforeIO ==
    (Lower(Suffix(output_file))
         \notin {<<".", "j", "s", "o", "n">>, <<".", "x", "m", "l">>})
    => /\ pc \in {"main", "raised"}
       /\ pc = "raised" => err = "ValueError"
       /\ log = <<>>
       /\ heap = EmptyHeap
       /\ calls = <<>>
       /\ fs.output = <<Missing>>

\* C3 witness: the run for out.txt has failed, with input files that would
\* have loaded
C3_Witness ==
    /\ pc = "raised" /\ err = "ValueError"
    /\ output_file = <<"o", "u", "t", ".", "t", "x", "t">>
    /\ json_load(fs.rooms).ok /\ json_load(fs.students).ok

\* C9: the steps of a run happen in the order read rooms, read students,
\* assign, write, each after the previous one completed; a step that fails
\* is the last one and ends the run; so the writer runs at most once, only
\* after every student was assigned, and no output exists after a failure.
C9_SequentialPipeline ==
    /\ Len(log) <= Len(Steps)
    /\ \A k \in 1..Len(log) :
          /\ log[k].step = Steps[k]
          /\ k < Len(log) => log[k].ok
    /\ \A k \in 1..Len(log) :
          ~log[k].ok => pc = "raised" /\ err # NoErr
    /\ pc = "raised" => fs.output = <<Missing>>
    /\ fs.output # <<Missing>>
       => /\ Len(log) = Len(Steps) /\ pc = "done"
          /\ \A i \in 1..Len(Now.v) :
                StudentsOf(Now.v[i])
                   = StudentsOf(initial.v[i])
                     \o NamesReferring(heap[students].v,
                                       Len(heap[students].v), i, Len(Now.v))
    /\ pc = "read_rooms" => log = <<>>
    /\ pc = "read_students" => Len(log) = 1
    /\ pc = "assign" => Len(log) = 2
    /\ pc = "write" => Len(log) = 3

\* C9 witness: a run wrote its output after assigning two students
C9_Witness ==
    /\ pc = "done" /\ fs.output # <<Missing>>
    /\ Len(heap[students].v) = 2 /\ Len(Now.v) = 2

=============================================================================
